---- MODULE Spec2Model ----
(***************************************************************************)
(* Shopping carts of backend/src/db/carrinho_database.py.                  *)
(*                                                                         *)
(* Carrinho  : one cart, a token and an insertion-ordered dict of items.   *)
(* Carrinhos : a store, a dict token -> Carrinho, and a snapshot file that *)
(*             jsonpickle writes and reads.                                *)
(*                                                                         *)
(* A Python dict is modelled as a sequence of entries [key, item] with     *)
(* pairwise different keys, in insertion order. A key is an int or a str:  *)
(* the code inserts under int ids, and jsonpickle.encode (keys=False, the  *)
(* default the code uses) writes every non-string key as its repr, so a    *)
(* cart read back from the snapshot has str keys. 1 and "1" are different  *)
(* dict keys in Python. An absent value (None) is the empty sequence, a    *)
(* present one a sequence of length 1.                                     *)
(***************************************************************************)
EXTENDS Integers, Sequences, FiniteSets, TLC

VARIABLES
    cart,   \* a Carrinho object on its own: [token, items]
    db,     \* db[s]: the dict token -> Carrinho of store instance s
    file,   \* the snapshot file the store instances share
    last,   \* the most recent call, its arguments and what it returned
    pc,     \* pc[s]: how far the call that store instance s is running has got
    added   \* the tokens whose add_new_cart returned success and that no
            \* later remove_cart_by_token or clear_cart_database took out

vars == <<cart, db, file, last, pc, added>>

\* ---------------------------------------------------------------- bounds
\* item ids given to the methods of one cart
MaxId == 2
\* entries a cart may grow to
MaxItems == 2
\* item ids given to the carts and methods of a store
MaxStoreId == 1

ItemIds == 1..MaxId
StoreIds == 1..MaxStoreId
Payloads == {"p", "q"}
Tokens == {"a", "b"}
Stores == {"A", "B"}

\* ------------------------------------------------------------ data model
\* Item (src.db.itens_database): opaque but for its id.
Items == [id : ItemIds, v : Payloads]
\* the items that callers put in the carts of a store
StoreItems == [id : StoreIds, v : {"p"}]

IntKey(n) == [kind |-> "int", n |-> n]
StrKey(n) == [kind |-> "str", n |-> n]
\* repr(k) of a dict key, as jsonpickle's flatten applies it to non-str keys
ReprKey(k) == StrKey(k.n)

None == <<>>
Some(x) == <<x>>

\* dict primitives on the entry sequence
RECURSIVE IndexOfKey(_, _, _)
IndexOfKey(d, k, i) ==
    IF i > Len(d) THEN 0
    ELSE IF d[i].key = k THEN i
    ELSE IndexOfKey(d, k, i + 1)

HasKey(d, k) == IndexOfKey(d, k, 1) # 0

\* d[k] = v : an existing key keeps its position, a new key goes last
DictSet(d, k, v) ==
    IF HasKey(d, k)
    THEN [d EXCEPT ![IndexOfKey(d, k, 1)] = [key |-> k, item |-> v]]
    ELSE Append(d, [key |-> k, item |-> v])

\* del d[k] for a key that is present
DictDel(d, k) ==
    LET i == IndexOfKey(d, k, 1)
    IN  SubSeq(d, 1, i - 1) \o SubSeq(d, i + 1, Len(d))

\* d.pop(k, None)
DictPop(d, k) ==
    IF HasKey(d, k)
    THEN [ret |-> Some(d[IndexOfKey(d, k, 1)].item), items |-> DictDel(d, k)]
    ELSE [ret |-> None, items |-> d]

ValuesOf(d) == {d[i].item : i \in 1..Len(d)}

\* ------------------------------------------------------------- Carrinho
Carrinho(token) == [token |-> token, items |-> <<>>]

get_all_items(items) == [i \in 1..Len(items) |-> items[i].item]

\* first value, in iteration order, whose id is item_id
RECURSIVE ScanByID(_, _, _)
ScanByID(items, item_id, i) ==
    IF i > Len(items) THEN None
    ELSE IF items[i].item.id = item_id THEN Some(items[i].item)
    ELSE ScanByID(items, item_id, i + 1)

get_item_by_ID(items, item_id) == ScanByID(items, item_id, 1)

\* (mutant) the duplicate test looks the id up as a key of the dict
add_new_item_ByKey(items, item) ==
    IF HasKey(items, IntKey(item.id))
    THEN [ok |-> FALSE, reason |-> "Item com mesmo ID ja no carrinho", items |-> items]
    ELSE [ok |-> TRUE, reason |-> "SUCCESS",
          items |-> DictSet(items, IntKey(item.id), item)]

add_new_item(items, item) ==
    IF get_item_by_ID(items, item.id) # None
    THEN [ok |-> FALSE, reason |-> "Item com mesmo ID ja no carrinho", items |-> items]
    ELSE [ok |-> TRUE, reason |-> "SUCCESS",
          items |-> DictSet(items, IntKey(item.id), item)]

remove_item_by_ID(items, item_id) == DictPop(items, IntKey(item_id))

\* the failure branch is taken when the item IS found (line 109)
modify_item_by_ID(items, item_id, new_item) ==
    IF get_item_by_ID(items, item_id) # None
    THEN [ok |-> FALSE, reason |-> "Item nao encontrado", items |-> items]
    ELSE [ok |-> TRUE, reason |-> "SUCCESS",
          items |-> DictSet(items, IntKey(item_id), new_item)]

clear_database(items) == <<>>

\* ------------------------------------------------- snapshot (jsonpickle)
\* jsonpickle.encode of a dict: entries are flattened in iteration order
\* into a JSON object, data[repr(k)] = v, so two keys with one repr
\* collapse into one member holding the later value.
RECURSIVE FlattenDict(_, _, _)
FlattenDict(d, i, data) ==
    IF i > Len(d) THEN data
    ELSE FlattenDict(d, i + 1, DictSet(data, ReprKey(d[i].key), d[i].item))

EncodeCart(c) == [token |-> c.token, items |-> FlattenDict(c.items, 1, <<>>)]

\* the file's content: absent, a JSON object of carts, or some other JSON
encode(d) == [kind |-> "dict", db |-> [t \in DOMAIN d |-> EncodeCart(d[t])]]

\* jsonpickle.decode rebuilds the objects; JSON member names stay str keys
decode(f) == f.db

NoFile == [kind |-> "absent", db |-> <<>>]
NotADict == [kind |-> "list", db |-> <<>>]

\* ------------------------------------------------------------ history
\* last: the most recent call, its arguments and what it returned
\* (wrote counts the calls of write_to_file; raised: an exception ended it)
Call(op, store, tok, id, item, update, ok, reason, ret, wrote, raised) ==
    [op |-> op, store |-> store, tok |-> tok, id |-> id, item |-> item,
     update |-> update, ok |-> ok, reason |-> reason, ret |-> ret,
     wrote |-> wrote, raised |-> raised]

NoCall == Call("none", "-", "-", 0, None, FALSE, TRUE, "-", None, 0, FALSE)

CartCall(op, id, item, ok, reason, ret) ==
    Call(op, "-", "-", id, item, FALSE, ok, reason, ret, 0, FALSE)

\* a store instance between two calls
Idle == [at |-> "idle", tok |-> "-", ok |-> FALSE]

\* ------------------------------------------------------------- Init
Init ==
    /\ cart = Carrinho("a")
    /\ db = [s \in Stores |-> <<>>]
    /\ file = encode(<<>>)
    /\ last = NoCall
    /\ pc = [s \in Stores |-> Idle]
    /\ added = {}

\* ------------------------------------------------- actions on one cart
AddNewItem ==
    \E item \in Items :
        LET r == add_new_item(cart.items, item)
        IN  /\ Len(r.items) <= MaxItems
            /\ cart' = [cart EXCEPT !.items = r.items]
            /\ last' = CartCall("add_new_item", 0, Some(item), r.ok, r.reason, None)
            /\ UNCHANGED <<db, file, pc, added>>

RemoveItemByID ==
    \E item_id \in ItemIds :
        LET r == remove_item_by_ID(cart.items, item_id)
        IN  /\ cart' = [cart EXCEPT !.items = r.items]
            /\ last' = CartCall("remove_item_by_ID", item_id, None, TRUE, "-", r.ret)
            /\ UNCHANGED <<db, file, pc, added>>

GetItemByID ==
    \E item_id \in ItemIds :
        /\ last' = CartCall("get_item_by_ID", item_id, None, TRUE, "-",
                            get_item_by_ID(cart.items, item_id))
        /\ UNCHANGED <<cart, db, file, pc, added>>

GetAllItems ==
    /\ last' = CartCall("get_all_items", 0, None, TRUE, "-", get_all_items(cart.items))
    /\ UNCHANGED <<cart, db, file, pc, added>>

ModifyItemByID ==
    \E item_id \in ItemIds, new_item \in Items :
        LET r == modify_item_by_ID(cart.items, item_id, new_item)
        IN  /\ Len(r.items) <= MaxItems
            /\ cart' = [cart EXCEPT !.items = r.items]
            /\ last' = CartCall("modify_item_by_ID", item_id, Some(new_item),
                                r.ok, r.reason, None)
            /\ UNCHANGED <<db, file, pc, added>>

ClearDatabase ==
    /\ cart' = [cart EXCEPT !.items = clear_database(cart.items)]
    /\ last' = CartCall("clear_database", 0, None, TRUE, "-", None)
    /\ UNCHANGED <<db, file, pc, added>>

\* the cart's store saves it and a store loads it back
RoundTrip ==
    /\ cart' = decode(encode([t \in {cart.token} |-> cart]))[cart.token]
    /\ last' = CartCall("round_trip", 0, None, TRUE, "-", None)
    /\ UNCHANGED <<db, file, pc, added>>

NextCart ==
    \/ AddNewItem
    \/ RemoveItemByID
    \/ GetItemByID
    \/ GetAllItems
    \/ ModifyItemByID
    \/ ClearDatabase
    \/ RoundTrip

SpecCart == Init /\ [][NextCart]_vars

\* ------------------------------------------------------------ Carrinhos
\* A store's db is a function from the tokens it holds to their carts (the
\* order of carts in the dict decides nothing the store does).
DbSet(d, token, c) ==
    [t \in (DOMAIN d) \cup {token} |-> IF t = token THEN c ELSE d[t]]

DbPop(d, token) == [t \in (DOMAIN d) \ {token} |-> d[t]]

\* outcome of a store method: the store's db, the file, the returned value
\* and the number of write_to_file calls made
Out(d, f, ok, reason, ret, wrote, raised) ==
    [db |-> d, file |-> f, ok |-> ok, reason |-> reason, ret |-> ret,
     wrote |-> wrote, raised |-> raised]

\* (mutant) the write merges nothing and saves nothing of the db
write_to_file_Empty(d) == encode(<<>>)

write_to_file(d) == encode(d)

\* (mutant) a missing file is created as the empty mapping
try_read_from_file_EmptyOnMissing(d, f) ==
    IF f.kind = "absent"
    THEN Out(d, write_to_file(<<>>), TRUE, "-", None, 1, FALSE)
    ELSE IF f.kind = "dict"
    THEN Out(decode(f), f, TRUE, "-", None, 0, FALSE)
    ELSE Out(d, f, TRUE, "-", None, 0, FALSE)

\* (mutant) "self.db = db if type(db) == dict else dict()"
try_read_from_file_WipeOnNonDict(d, f) ==
    IF f.kind = "absent"
    THEN Out(d, write_to_file(d), TRUE, "-", None, 1, FALSE)
    ELSE IF f.kind = "dict"
    THEN Out(decode(f), f, TRUE, "-", None, 0, FALSE)
    ELSE Out(<<>>, f, TRUE, "-", None, 0, FALSE)

try_read_from_file(d, f) ==
    IF f.kind = "absent"
    THEN Out(d, write_to_file(d), TRUE, "-", None, 1, FALSE)
    ELSE IF f.kind = "dict"
    THEN Out(decode(f), f, TRUE, "-", None, 0, FALSE)
    ELSE Out(d, f, TRUE, "-", None, 0, FALSE)

\* "if update: self.try_read_from_file()"
\* (mutant) the update flag is ignored, the store never reloads
Refresh_Never(d, f, update) == Out(d, f, TRUE, "-", None, 0, FALSE)

Refresh(d, f, update) ==
    IF update THEN try_read_from_file(d, f)
    ELSE Out(d, f, TRUE, "-", None, 0, FALSE)

\* __init__: an empty db, then the load
NewCarrinhos(f) == try_read_from_file(<<>>, f)

\* the scan "for key,val in self.db.items(): if val.token == token"
LookupByToken(d, token) ==
    LET hit == {t \in DOMAIN d : d[t].token = token}
    IN  IF hit = {} THEN None ELSE Some(d[CHOOSE t \in hit : TRUE])

\* line 203 names try_read_from_file without calling it: no reload
get_cart_by_token(d, f, token, update) ==
    Out(d, f, TRUE, "-", LookupByToken(d, token), 0, FALSE)

get_cart_list(d, f, update) ==
    LET r == Refresh(d, f, update)
    IN  Out(r.db, r.file, TRUE, "-", {r.db[t] : t \in DOMAIN r.db}, r.wrote, FALSE)

\* (mutant) the duplicate branch saves before it returns
add_new_cart_WritesOnDuplicate(d, f, carrinho, update) ==
    LET r == Refresh(d, f, update)
    IN  IF LookupByToken(r.db, carrinho.token) # None
        THEN Out(r.db, write_to_file(r.db), FALSE,
                 "Carrinho com mesmo token ja na base de dados",
                 None, r.wrote + 1, FALSE)
        ELSE LET d2 == DbSet(r.db, carrinho.token, carrinho)
             IN  Out(d2, write_to_file(d2), TRUE, "SUCCESS", None, r.wrote + 1, FALSE)

\* (mutant) the cart is stored under a generated id, not under its token
add_new_cart_KeyedByUuid(d, f, carrinho, update) ==
    LET r == Refresh(d, f, update)
    IN  IF LookupByToken(r.db, carrinho.token) # None
        THEN Out(r.db, r.file, FALSE, "Carrinho com mesmo token ja na base de dados",
                 None, r.wrote, FALSE)
        ELSE LET d2 == DbSet(r.db, "uuid4", carrinho)
             IN  Out(d2, write_to_file(d2), TRUE, "SUCCESS", None, r.wrote + 1, FALSE)

add_new_cart(d, f, carrinho, update) ==
    LET r == Refresh(d, f, update)
    IN  IF LookupByToken(r.db, carrinho.token) # None
        THEN Out(r.db, r.file, FALSE, "Carrinho com mesmo token ja na base de dados",
                 None, r.wrote, FALSE)
        ELSE LET d2 == DbSet(r.db, carrinho.token, carrinho)
             IN  Out(d2, write_to_file(d2), TRUE, "SUCCESS", None, r.wrote + 1, FALSE)

\* (mutant) the cart is popped but the snapshot is not written
remove_cart_by_token_NoWrite(d, f, token, update) ==
    LET r == Refresh(d, f, update)
        toreturn == IF token \in DOMAIN r.db THEN Some(r.db[token]) ELSE None
    IN  Out(DbPop(r.db, token), r.file, TRUE, "-", toreturn, r.wrote, FALSE)

remove_cart_by_token(d, f, token, update) ==
    LET r == Refresh(d, f, update)
        toreturn == IF token \in DOMAIN r.db THEN Some(r.db[token]) ELSE None
        d2 == DbPop(r.db, token)
    IN  Out(d2, write_to_file(d2), TRUE, "-", toreturn, r.wrote + 1, FALSE)

\* "for token, cart in self.db" iterates the keys and unpacks each token
\* string into two names: ValueError for every token but a two-character
\* one, whose second character "for id, item in cart" then fails to unpack.
\* So the loop raises on its first cart, before write_to_file.
modify_item_all_carts(d, f, item_id, new_item, update) ==
    LET r == Refresh(d, f, update)
    IN  IF DOMAIN r.db = {}
        THEN Out(r.db, write_to_file(r.db), TRUE, "-", None, r.wrote + 1, FALSE)
        ELSE Out(r.db, r.file, FALSE, "ValueError", None, r.wrote, TRUE)

\* "if item_id in cart.items: del cart.items[item_id]" for the int item_id
RemoveFromCart(c, item_id) ==
    IF HasKey(c.items, IntKey(item_id))
    THEN [c EXCEPT !.items = DictDel(c.items, IntKey(item_id))]
    ELSE c

remove_item_all_carts(d, f, item_id, update) ==
    LET r == Refresh(d, f, update)
        d2 == [t \in DOMAIN r.db |-> RemoveFromCart(r.db[t], item_id)]
    IN  Out(d2, write_to_file(d2), TRUE, "-", None, r.wrote + 1, FALSE)

\* (mutant) the db is emptied in memory only
clear_cart_database_NoWrite(d) == Out(<<>>, encode(d), TRUE, "-", None, 0, FALSE)

clear_cart_database(d) == Out(<<>>, write_to_file(<<>>), TRUE, "-", None, 1, FALSE)

\* -------------------------------------------------- actions on a store
StoreCall(op, s, tok, id, item, update, r) ==
    Call(op, s, tok, id, item, update, r.ok, r.reason, r.ret, r.wrote, r.raised)

Construct(s) ==
    LET r == NewCarrinhos(file)
    IN  /\ db' = [db EXCEPT ![s] = r.db]
        /\ file' = r.file
        /\ last' = StoreCall("__init__", s, "-", 0, None, FALSE, r)
        /\ UNCHANGED <<cart, pc, added>>

WriteToFile(s) ==
    LET r == Out(db[s], write_to_file(db[s]), TRUE, "-", None, 1, FALSE)
    IN  /\ db' = [db EXCEPT ![s] = r.db]
        /\ file' = r.file
        /\ last' = StoreCall("write_to_file", s, "-", 0, None, FALSE, r)
        /\ UNCHANGED <<cart, pc, added>>

GetCartList(s) ==
    \E update \in BOOLEAN :
        LET r == get_cart_list(db[s], file, update)
        IN  /\ db' = [db EXCEPT ![s] = r.db]
            /\ file' = r.file
            /\ last' = StoreCall("get_cart_list", s, "-", 0, None, update,
                                 [r EXCEPT !.ret = None])
            /\ UNCHANGED <<cart, pc, added>>

\* what a caller has put into the cart it hands to add_new_cart: nothing,
\* or one item
CallerLoads == {None} \cup {Some(it) : it \in StoreItems}

\* the cart itself: a new Carrinho(token), then add_new_item of that item
CallerCart(token, load) ==
    IF load = None THEN Carrinho(token)
    ELSE [Carrinho(token) EXCEPT !.items = add_new_item(<<>>, load[1]).items]

AddNewCart(s) ==
    \E token \in Tokens, update \in BOOLEAN, load \in CallerLoads :
        LET r == add_new_cart(db[s], file, CallerCart(token, load), update)
        IN  /\ db' = [db EXCEPT ![s] = r.db]
            /\ file' = r.file
            /\ last' = StoreCall("add_new_cart", s, token, 0, None, update, r)
            /\ UNCHANGED <<cart, pc, added>>

RemoveCartByToken(s) ==
    \E token \in Tokens, update \in BOOLEAN :
        LET r == remove_cart_by_token(db[s], file, token, update)
        IN  /\ db' = [db EXCEPT ![s] = r.db]
            /\ file' = r.file
            /\ last' = StoreCall("remove_cart_by_token", s, token, 0, None, update, r)
            /\ UNCHANGED <<cart, pc, added>>

GetCartByToken(s) ==
    \E token \in Tokens, update \in BOOLEAN :
        LET r == get_cart_by_token(db[s], file, token, update)
        IN  /\ db' = [db EXCEPT ![s] = r.db]
            /\ file' = r.file
            /\ last' = StoreCall("get_cart_by_token", s, token, 0, None, update, r)
            /\ UNCHANGED <<cart, pc, added>>

ModifyItemAllCarts(s) ==
    \E item_id \in StoreIds, new_item \in StoreItems, update \in BOOLEAN :
        LET r == modify_item_all_carts(db[s], file, item_id, new_item, update)
        IN  /\ db' = [db EXCEPT ![s] = r.db]
            /\ file' = r.file
            /\ last' = StoreCall("modify_item_all_carts", s, "-", item_id,
                                Some(new_item), update, r)
            /\ UNCHANGED <<cart, pc, added>>

RemoveItemAllCarts(s) ==
    \E item_id \in StoreIds, update \in BOOLEAN :
        LET r == remove_item_all_carts(db[s], file, item_id, update)
        IN  /\ db' = [db EXCEPT ![s] = r.db]
            /\ file' = r.file
            /\ last' = StoreCall("remove_item_all_carts", s, "-", item_id,
                                None, update, r)
            /\ UNCHANGED <<cart, pc, added>>

ClearCartDatabase(s) ==
    LET r == clear_cart_database(db[s])
    IN  /\ db' = [db EXCEPT ![s] = r.db]
        /\ file' = r.file
        /\ last' = StoreCall("clear_cart_database", s, "-", 0, None, FALSE, r)
        /\ UNCHANGED <<cart, pc, added>>

\* the caller adds an item to a cart it got from the store (get_cart_by_token
\* returns the object the db holds, add_new_cart keeps the caller's object)
CartAddNewItem(s) ==
    \E token \in DOMAIN db[s], item \in StoreItems :
        LET r == add_new_item(db[s][token].items, item)
        IN  /\ Len(r.items) <= MaxItems
            /\ db' = [db EXCEPT ![s][token].items = r.items]
            /\ last' = Call("cart.add_new_item", s, token, 0, Some(item), FALSE,
                            r.ok, r.reason, None, 0, FALSE)
            /\ UNCHANGED <<cart, file, pc, added>>

CartRemoveItemByID(s) ==
    \E token \in DOMAIN db[s], item_id \in StoreIds :
        LET r == remove_item_by_ID(db[s][token].items, item_id)
        IN  /\ db' = [db EXCEPT ![s][token].items = r.items]
            /\ last' = Call("cart.remove_item_by_ID", s, token, item_id, None, FALSE,
                            TRUE, "-", r.ret, 0, FALSE)
            /\ UNCHANGED <<cart, file, pc, added>>

\* the environment removes the snapshot, or leaves JSON that is no object
FileRemoved ==
    /\ file.kind # "absent"
    /\ file' = NoFile
    /\ last' = Call("env.remove", "-", "-", 0, None, FALSE, TRUE, "-", None, 0, FALSE)
    /\ UNCHANGED <<cart, db, pc, added>>

FileNotADict ==
    /\ file.kind # "list"
    /\ file' = NotADict
    /\ last' = Call("env.not_a_dict", "-", "-", 0, None, FALSE, TRUE, "-", None, 0, FALSE)
    /\ UNCHANGED <<cart, db, pc, added>>

\* one store and its snapshot
Next ==
    \/ Construct("A")
    \/ WriteToFile("A")
    \/ GetCartList("A")
    \/ AddNewCart("A")
    \/ RemoveCartByToken("A")
    \/ GetCartByToken("A")
    \/ ModifyItemAllCarts("A")
    \/ RemoveItemAllCarts("A")
    \/ ClearCartDatabase("A")
    \/ CartAddNewItem("A")
    \/ CartRemoveItemByID("A")
    \/ FileRemoved
    \/ FileNotADict

Spec == Init /\ [][Next]_vars

\* two store instances over one snapshot, whole calls taking turns
NextTwo ==
    \E s \in Stores :
        \/ Construct(s)
        \/ WriteToFile(s)
        \/ GetCartList(s)
        \/ AddNewCart(s)
        \/ RemoveCartByToken(s)
        \/ GetCartByToken(s)
        \/ ClearCartDatabase(s)

SpecTwo == Init /\ [][NextTwo]_vars

\* ---- two stores taking turns: whole calls, always update = True ----
\* `added` records the tokens whose add_new_cart returned success and that
\* no later remove_cart_by_token or clear_cart_database took out.
TurnAddNewCart(s) ==
    \E token \in Tokens, load \in CallerLoads :
        LET r == add_new_cart(db[s], file, CallerCart(token, load), TRUE)
        IN  /\ db' = [db EXCEPT ![s] = r.db]
            /\ file' = r.file
            /\ last' = StoreCall("add_new_cart", s, token, 0, None, TRUE, r)
            /\ added' = IF r.ok THEN added \cup {token} ELSE added
            /\ UNCHANGED <<cart, pc>>

TurnRemoveCartByToken(s) ==
    \E token \in Tokens :
        LET r == remove_cart_by_token(db[s], file, token, TRUE)
        IN  /\ db' = [db EXCEPT ![s] = r.db]
            /\ file' = r.file
            /\ last' = StoreCall("remove_cart_by_token", s, token, 0, None, TRUE, r)
            /\ added' = IF r.ret # None THEN added \ {token} ELSE added
            /\ UNCHANGED <<cart, pc>>

TurnClearCartDatabase(s) ==
    LET r == clear_cart_database(db[s])
    IN  /\ db' = [db EXCEPT ![s] = r.db]
        /\ file' = r.file
        /\ last' = StoreCall("clear_cart_database", s, "-", 0, None, FALSE, r)
        /\ added' = {}
        /\ UNCHANGED <<cart, pc>>

TurnGetCartList(s) ==
    LET r == get_cart_list(db[s], file, TRUE)
    IN  /\ db' = [db EXCEPT ![s] = r.db]
        /\ file' = r.file
        /\ last' = StoreCall("get_cart_list", s, "-", 0, None, TRUE,
                             [r EXCEPT !.ret = None])
        /\ UNCHANGED <<cart, pc, added>>

NextTurns ==
    \E s \in Stores :
        \/ TurnAddNewCart(s)
        \/ TurnRemoveCartByToken(s)
        \/ TurnClearCartDatabase(s)
        \/ TurnGetCartList(s)

SpecTurns == Init /\ [][NextTurns]_vars

\* ---- two stores racing: add_new_cart(carrinho, update=True) in steps ----
\* pc[s] is where store s stands inside its call: after the reload of line
\* 166, after the assignment of line 173, or back at the caller.
\* line 165-166: the reload
RaceReload(s) ==
    /\ pc[s].at = "idle"
    /\ \E token \in Tokens :
        LET r == Refresh(db[s], file, TRUE)
        IN  /\ db' = [db EXCEPT ![s] = r.db]
            /\ file' = r.file
            /\ pc' = [pc EXCEPT ![s] = [at |-> "loaded", tok |-> token, ok |-> FALSE]]
            /\ UNCHANGED <<cart, last, added>>

\* line 167-173: the duplicate test, then self.db[token] = carrinho
RaceMutate(s) ==
    /\ pc[s].at = "loaded"
    /\ IF LookupByToken(db[s], pc[s].tok) # None
       THEN /\ pc' = [pc EXCEPT ![s] = Idle]
            /\ last' = Call("add_new_cart", s, pc[s].tok, 0, None, TRUE, FALSE,
                            "Carrinho com mesmo token ja na base de dados",
                            None, 0, FALSE)
            /\ UNCHANGED <<cart, db, file, added>>
       ELSE /\ db' = [db EXCEPT ![s] = DbSet(db[s], pc[s].tok, Carrinho(pc[s].tok))]
            /\ pc' = [pc EXCEPT ![s].at = "mutated"]
            /\ UNCHANGED <<cart, file, last, added>>

\* line 174-175: write_to_file, return (True, "SUCCESS")
RaceWrite(s) ==
    /\ pc[s].at = "mutated"
    /\ file' = write_to_file(db[s])
    /\ pc' = [pc EXCEPT ![s] = Idle]
    /\ last' = Call("add_new_cart", s, pc[s].tok, 0, None, TRUE, TRUE, "SUCCESS",
                    None, 1, FALSE)
    /\ added' = added \cup {pc[s].tok}
    /\ UNCHANGED <<cart, db>>

\* clear_cart_database, a whole call of a store that is not inside another
RaceClear(s) ==
    /\ pc[s].at = "idle"
    /\ db' = [db EXCEPT ![s] = clear_cart_database(db[s]).db]
    /\ file' = clear_cart_database(db[s]).file
    /\ last' = StoreCall("clear_cart_database", s, "-", 0, None, FALSE,
                         clear_cart_database(db[s]))
    /\ added' = {}
    /\ UNCHANGED <<cart, pc>>

NextRace ==
    \E s \in Stores :
        \/ RaceReload(s)
        \/ RaceMutate(s)
        \/ RaceWrite(s)
        \/ RaceClear(s)

SpecRace == Init /\ [][NextRace]_vars

\* ======================================================== claims, one cart
IdsOf(items) == {x.id : x \in ValuesOf(items)}

\* C1: add_new_item with an item whose id is already the id of an item in
\* the cart returns (False, "Item com mesmo ID ...") and leaves the cart's
\* item mapping exactly as it was.
C1_DuplicateAddRejected ==
    [][(/\ last'.op = "add_new_item"
        /\ last'.item[1].id \in IdsOf(cart.items))
       => (/\ ~last'.ok
           /\ last'.reason = "Item com mesmo ID ja no carrinho"
           /\ cart' = cart)]_vars

\* a duplicate was rejected although no entry is keyed by the item's int id
C1_Witness ==
    /\ last.op = "add_new_item"
    /\ ~last.ok
    /\ last.item[1].id \in IdsOf(cart.items)
    /\ ~HasKey(cart.items, IntKey(last.item[1].id))

\* C2: add_new_item with an item whose id is the id of no item in the cart
\* succeeds, get_item_by_ID(item.id) then returns that item, and every
\* item that was in the cart is still in it.
C2_NewAddKeepsOthers ==
    [][(/\ last'.op = "add_new_item"
        /\ last'.item[1].id \notin IdsOf(cart.items))
       => (/\ last'.ok
           /\ get_item_by_ID(cart'.items, last'.item[1].id) = last'.item
           /\ ValuesOf(cart.items) \subseteq ValuesOf(cart'.items))]_vars

\* C3: modify_item_by_ID succeeds and puts new_item in place of the item
\* when an item with item_id is in the cart, and fails and leaves the cart
\* unchanged when none is.
C3_ModifyReplacesWhenFound ==
    [][last'.op = "modify_item_by_ID"
       => IF last'.id \in IdsOf(cart.items)
          THEN /\ last'.ok
               /\ last'.item[1] \in ValuesOf(cart'.items)
          ELSE /\ ~last'.ok
               /\ cart' = cart]_vars

\* ======================================================= claims, a store
\* the collection a call of store s works on once its refresh is done
Effective(s, update) ==
    IF update /\ file.kind = "dict" THEN file.db ELSE db[s]

Duplicate == "Carrinho com mesmo token ja na base de dados"

\* C4 as stated: add_new_cart(update=True) for a token the store holds
\* returns (False, "Carrinho com mesmo token ..."), calls write_to_file
\* not once, and leaves the snapshot file as it was.
C4_DuplicateCartNoWrite ==
    [][(/\ last'.op = "add_new_cart"
        /\ last'.update
        /\ last'.tok \in DOMAIN Effective(last'.store, TRUE))
       => (/\ ~last'.ok
           /\ last'.reason = Duplicate
           /\ last'.wrote = 0
           /\ file' = file)]_vars

\* C4 amended: the call fails, and the snapshot is unchanged when the file
\* existed; when it did not, the refresh has created it from the store's
\* in-memory collection, in one write.
C4_DuplicateCartWritesOnlyMissingFile ==
    [][(/\ last'.op = "add_new_cart"
        /\ last'.update
        /\ last'.tok \in DOMAIN Effective(last'.store, TRUE))
       => (/\ ~last'.ok
           /\ last'.reason = Duplicate
           /\ IF file.kind = "absent"
              THEN last'.wrote = 1 /\ file' = encode(db[last'.store])
              ELSE last'.wrote = 0 /\ file' = file)]_vars

\* a duplicate was refused over a snapshot that holds a cart with an item
C4_Witness ==
    /\ last.op = "add_new_cart"
    /\ last.update
    /\ ~last.ok
    /\ last.wrote = 0
    /\ file.kind = "dict"
    /\ last.tok \in DOMAIN file.db
    /\ file.db[last.tok].items # <<>>

\* C5: after remove_item_all_carts(item_id) no cart of the store holds an
\* item with that id, the other entries and the tokens are as before, and
\* the snapshot shows the same.
C5_ItemRemovedEverywhere ==
    [][last'.op = "remove_item_all_carts"
       => LET s == last'.store
              before == Effective(s, last'.update)
          IN  /\ DOMAIN db'[s] = DOMAIN before
              /\ \A t \in DOMAIN before :
                    /\ last'.id \notin IdsOf(db'[s][t].items)
                    /\ ValuesOf(db'[s][t].items)
                         = {x \in ValuesOf(before[t].items) : x.id # last'.id}
              /\ file'.kind = "dict"
              /\ DOMAIN file'.db = DOMAIN before
              /\ \A t \in DOMAIN before :
                    last'.id \notin IdsOf(file'.db[t].items)]_vars

\* C6: modify_item_all_carts completes normally, every cart that held
\* item_id holds new_item in its place, the others are unchanged, and the
\* call itself writes the snapshot once.
C6_ItemModifiedEverywhere ==
    [][last'.op = "modify_item_all_carts"
       => LET s == last'.store
              before == Effective(s, last'.update)
          IN  /\ ~last'.raised
              /\ DOMAIN db'[s] = DOMAIN before
              /\ \A t \in DOMAIN before :
                    IF last'.id \in IdsOf(before[t].items)
                    THEN last'.item[1] \in ValuesOf(db'[s][t].items)
                    ELSE db'[s][t] = before[t]
              /\ file' = encode(db'[s])]_vars

\* C7: what a caller changed in a cart of the store is in the snapshot
\* once the next mutating store call with update=True has returned: every
\* item the in-memory carts held before the call, but for what the call
\* itself removes, is then in the snapshot.
C7_DirectMutationPersisted ==
    [][(/\ last'.op \in {"add_new_cart", "remove_cart_by_token",
                         "remove_item_all_carts"}
        /\ last'.update)
       => LET s == last'.store
              kept == IF last'.op = "remove_cart_by_token"
                      THEN DOMAIN db[s] \ {last'.tok}
                      ELSE DOMAIN db[s]
          IN  /\ file'.kind = "dict"
              /\ \A t \in kept :
                    /\ t \in DOMAIN file'.db
                    /\ \A x \in ValuesOf(db[s][t].items) :
                          (last'.op = "remove_item_all_carts" /\ x.id = last'.id)
                          \/ x \in ValuesOf(file'.db[t].items)]_vars

\* C8: get_cart_by_token(update=True) answers from the snapshot: it returns
\* a cart exactly when the snapshot holds one with that token.
C8_GetCartReloads ==
    [][(/\ last'.op = "get_cart_by_token"
        /\ last'.update
        /\ file.kind = "dict")
       => (last'.ret # None <=> last'.tok \in DOMAIN file.db)]_vars

\* C9: remove_cart_by_token on a store that holds the token returns the
\* removed cart; a second call right after it returns None; after either
\* the snapshot has no cart with that token; and for a token the store
\* does not hold the call leaves the other carts as they are.
C9_RemoveCartTwice ==
    [][last'.op = "remove_cart_by_token"
       => LET s == last'.store
              t == last'.tok
              before == Effective(s, last'.update)
          IN  /\ IF t \in DOMAIN before
                 THEN last'.ret = Some(before[t])
                 ELSE /\ last'.ret = None
                      /\ db'[s] = before
              /\ (last.op = "remove_cart_by_token" /\ last.tok = t /\ last.store = s)
                    => last'.ret = None
              /\ DOMAIN db'[s] = DOMAIN db[s] \ {t}
              /\ file'.kind = "dict"
              /\ DOMAIN file'.db = DOMAIN db[s] \ {t}
              /\ \A u \in DOMAIN file'.db : file'.db[u] = EncodeCart(before[u])]_vars

\* a cart holding an item was removed and returned, and another cart stays
C9_Witness ==
    /\ last.op = "remove_cart_by_token"
    /\ last.ret # None
    /\ last.ret[1].items # <<>>
    /\ file.kind = "dict"
    /\ last.tok \notin DOMAIN file.db
    /\ DOMAIN file.db # {}

\* C10: write_to_file, then a new store over the same file: the loaded
\* carts have the same tokens and each the same set of items as the carts
\* of the saving store (here for the cart of one token).
C10_RoundTrip ==
    [][last'.op = "round_trip"
       => /\ cart'.token = cart.token
          /\ ValuesOf(cart'.items) = ValuesOf(cart.items)]_vars

\* =================================================== claims, one cart (2)
\* every entry sits under the key of its item's id, as an int or as a str
WellKeyed(items) == \A i \in 1..Len(items) : items[i].key.n = items[i].item.id

\* C11: remove_item_by_ID for an id that no item of the cart has returns
\* None and leaves the item mapping unchanged; for the id of an item in
\* the cart it returns that item and removes that entry and no other.
\* (Stated for carts whose entries are keyed by their items' ids.)
C11_RemoveItemByID ==
    [][(/\ last'.op = "remove_item_by_ID"
        /\ WellKeyed(cart.items))
       => IF last'.id \notin IdsOf(cart.items)
          THEN /\ last'.ret = None
               /\ cart' = cart
          ELSE /\ last'.ret # None
               /\ last'.ret[1].id = last'.id
               /\ ValuesOf(cart'.items) = ValuesOf(cart.items) \ {last'.ret[1]}]_vars

\* C13: in every state of a cart no two entries hold items with the same
\* id, and every entry's key is the id of its item.
C13_CartKeysAreIds ==
    /\ \A i, j \in 1..Len(cart.items) :
          i # j => cart.items[i].item.id # cart.items[j].item.id
    /\ WellKeyed(cart.items)

\* =================================================== claims, a store (2)
\* C12: after clear_cart_database the store's db is empty and the snapshot
\* is the empty mapping: get_cart_list(update=True) and a new store over
\* the file both see no cart.
C12_ClearEmptiesStoreAndSnapshot ==
    [][last'.op = "clear_cart_database"
       => LET s == last'.store
          IN  /\ db'[s] = <<>>
              /\ file' = encode(<<>>)
              /\ get_cart_list(db'[s], file', TRUE).ret = {}
              /\ NewCarrinhos(file').db = <<>>]_vars

\* the store was cleared and its snapshot holds no cart
C12_Witness ==
    /\ last.op = "clear_cart_database"
    /\ last.wrote = 1
    /\ db[last.store] = <<>>
    /\ file.kind = "dict"
    /\ DOMAIN file.db = {}

\* the calls that run try_read_from_file and do nothing else to the state
JustLoads == last'.op = "__init__" \/ (last'.op = "get_cart_list" /\ last'.update)

\* what the store holds in memory when the load starts
BeforeLoad(s) == IF last'.op = "__init__" THEN <<>> ELSE db[s]

\* C15 as stated: whenever the load finds no file, the file it writes is
\* the empty mapping.
C15_MissingFileCreatedEmpty ==
    [][(JustLoads /\ file.kind = "absent")
       => file' = encode(<<>>)]_vars

\* C15 amended: the file it writes holds the store's in-memory collection
\* of that moment, which is empty at construction.
C15_MissingFileCreatedFromMemory ==
    [][(JustLoads /\ file.kind = "absent")
       => (/\ last'.wrote = 1
           /\ file' = encode(BeforeLoad(last'.store))
           /\ db'[last'.store] = BeforeLoad(last'.store)
           /\ (last'.op = "__init__" => file' = encode(<<>>)))]_vars

\* a reload found no file and wrote one that holds a cart
C15_Witness ==
    /\ last.op = "get_cart_list"
    /\ last.update
    /\ last.wrote = 1
    /\ file.kind = "dict"
    /\ DOMAIN file.db # {}

\* C16: when the file exists and decodes to something that is no mapping,
\* the load leaves the in-memory collection as it was and writes nothing.
C16_NonMappingKeepsMemory ==
    [][(JustLoads /\ file.kind = "list")
       => (/\ db'[last'.store] = BeforeLoad(last'.store)
           /\ last'.wrote = 0
           /\ file' = file)]_vars

\* a reload over a non-mapping file, by a store that holds a cart
C16_Witness ==
    /\ last.op = "get_cart_list"
    /\ last.update
    /\ last.wrote = 0
    /\ file.kind = "list"
    /\ DOMAIN db[last.store] # {}

\* C17: in every state no two carts of a store's db, nor of the snapshot,
\* have the same token, and every cart sits under its own token.
KeyedByToken(d) ==
    /\ \A t \in DOMAIN d : d[t].token = t
    /\ \A t, u \in DOMAIN d : t # u => d[t].token # d[u].token

C17_CartsKeyedByToken ==
    /\ \A s \in Stores : KeyedByToken(db[s])
    /\ file.kind = "dict" => KeyedByToken(file.db)

\* the store and the snapshot hold two carts, one of them with an item
C17_Witness ==
    /\ DOMAIN db["A"] = Tokens
    /\ file.kind = "dict"
    /\ DOMAIN file.db = Tokens
    /\ \E t \in Tokens : file.db[t].items # <<>>

\* C18: whenever add_new_cart, remove_cart_by_token or remove_item_all_carts
\* called with update = True, or clear_cart_database, returns and the
\* snapshot holds a mapping, the store's db equals the decoded snapshot.
MutatingWithRefresh ==
    \/ /\ last'.op \in {"add_new_cart", "remove_cart_by_token", "remove_item_all_carts"}
       /\ last'.update
    \/ last'.op = "clear_cart_database"

C18_MemoryEqualsSnapshot ==
    [][(MutatingWithRefresh /\ file'.kind = "dict")
          => db'[last'.store] = decode(file')]_vars

\* C19: when two stores over the same snapshot run whole calls in turn,
\* always with update = True, the snapshot holds every cart whose
\* add_new_cart returned success and that no later remove_cart_by_token or
\* clear_cart_database removed.
C19_NoAddLostInTurns ==
    /\ file.kind = "dict"
    /\ \A t \in added : t \in DOMAIN file.db /\ file.db[t].token = t

\* store A added one cart, then store B the other: the snapshot has both
C19_Witness ==
    /\ last.op = "add_new_cart" /\ last.ok /\ last.store = "B"
    /\ added = Tokens
    /\ DOMAIN file.db = Tokens
    /\ DOMAIN db["A"] # Tokens /\ DOMAIN db["A"] # {}

\* C14: with the reload, mutate and write steps of two stores interleaved,
\* the store that writes last decides the snapshot: its write leaves
\* exactly its own db there, so a cart another store wrote after this
\* store's reload is gone although both calls returned success.
WriteStep ==
    /\ last'.op = "add_new_cart"
    /\ last'.ok
    /\ pc[last'.store].at = "mutated"
    /\ pc'[last'.store].at = "idle"

C14_LastWriterWins ==
    [][WriteStep => LET s == last'.store IN
          /\ file' = encode(db[s])
          /\ DOMAIN file'.db = DOMAIN db[s]
          /\ \A t \in DOMAIN file.db : t \notin DOMAIN db[s] => t \notin DOMAIN file'.db]_vars

\* both add_new_cart calls returned success, both stores are back at the
\* caller, and the snapshot lacks the cart of the store that wrote first
C14_Witness ==
    /\ \A s \in Stores : pc[s].at = "idle"
    /\ last.op = "add_new_cart" /\ last.ok
    /\ added = Tokens
    /\ DOMAIN file.db = {last.tok}
    /\ \E s \in Stores : s # last.store /\ DOMAIN db[s] = Tokens \ {last.tok}

====
